---- MODULE Spec2Model ----
(***************************************************************************)
(* data-mocks-server: mock resolution, request dispatch, the context store *)
(* and the scenario-activation transition.                                 *)
(*                                                                         *)
(* src/src/index.ts holds two `run` programs.  Lines 1-366 are the server  *)
(* with a context store and a cookie (per-client) mode; its resolver is    *)
(* mergeMocks/getInitialContext/getMocksAndInitialContext and its modules  *)
(* ./apis, ./http, ./graph-ql and ./create-handler are not in src/.  Lines *)
(* 368-730 are the server whose resolver is reduceAllMocksForScenarios and *)
(* whose PUT /modify-scenarios handler is inline.  The definitions of the  *)
(* second program that share a name with the first carry the suffix _2.    *)
(* The variable `impl` says which `run` was started: "ctx" (line 19) or    *)
(* "grp" (line 391).                                                       *)
(***************************************************************************)
EXTENDS Integers, Sequences, FiniteSets, TLC

VARIABLES
    impl,               \* which run(): "ctx" (index.ts:19) or "grp" (index.ts:391)
    cookieMode,         \* options.cookieMode (index.ts:35)
    defaultMocks,       \* run's `default` argument
    scenarioMocks,      \* run's `scenarios` argument
    selectedScenarios,  \* index.ts:28 / index.ts:396
    router,             \* index.ts:29 / index.ts:397, the closure of createRouter
    cookies,            \* per client: the `scenarios` and `context` cookies it holds
    res,                \* the response written to the last request
    fresh,              \* who activated and had no mock run since: clients, "shared" in shared mode
    inflight            \* per request id: the request a handler has not answered yet

vars == <<impl, cookieMode, defaultMocks, scenarioMocks, selectedScenarios,
          router, cookies, res, fresh, inflight>>

----------------------------------------------------------------------------
(* Bounds *)

MaxSel == 2        \* longest selection sent in an activation request
MaxCount == 2      \* largest value a context counter is driven to
MaxDefaults == 2   \* longest default mock list the resolver is given

----------------------------------------------------------------------------
(* Values *)

\* JavaScript `undefined` as a context value (JSON.stringify drops such keys)
Undefined == -1
\* NaN, what undefined + 1 evaluates to
NaN == -2
\* JSON null
Null == -3
\* a string value that holds a semicolon, such as 'x;y'
Semi == -4

Lit(s) == [k |-> "lit", v |-> s]
Par(s) == [k |-> "param", v |-> s]

\* url text of the mocks, as path-to-regexp segments
UrlA == <<Lit("a")>>
UrlB == <<Lit("b")>>
UrlC == <<Lit("c")>>
UrlU1 == <<Lit("u"), Lit("1")>>
UrlUId == <<Lit("u"), Par("id")>>
UrlGql == <<Lit("graphql")>>
UrlUKey == <<Lit("u"), Par("key")>>

\* request paths
PathA == <<"a">>
PathB == <<"b">>
PathC == <<"c">>
PathU1 == <<"u", "1">>
PathUEnc == <<"u", "%31">>
PathGql == <<"graphql">>
Paths == {PathA, PathB, PathC, PathU1, PathUEnc, PathGql}
ReqMethods == {"GET", "PATCH"}

EmptyContext == [k \in {} |-> 0]
Ctx1(k, v) == (k :> v)
Ctx2(k1, v1, k2, v2) == (k1 :> v1) @@ (k2 :> v2)

\* A mock (types.ts:44-81).  `response` tags the body; `fn` says what the response
\* is: "static" (a value) or a response function and what it does with the context.
Mock(m, u, r, f) == [method |-> m, url |-> u, response |-> r, fn |-> f]

\* Default / a scenario entry (types.ts:1-16): a bare mock list or an object
Bare(ms) == [isArray |-> TRUE, hasGroup |-> FALSE, group |-> "", hasContext |-> FALSE,
             context |-> EmptyContext, mocks |-> ms]
Entry(hg, g, hc, c, ms) == [isArray |-> FALSE, hasGroup |-> hg, group |-> g, hasContext |-> hc,
                            context |-> c, mocks |-> ms]

----------------------------------------------------------------------------
(* The context store *)

\* object spread { ...a, ...b }
Spread(a, b) == [k \in (DOMAIN a) \cup (DOMAIN b) |-> IF k \in DOMAIN b THEN b[k] ELSE a[k]]

\* What a response function hands to updateContext, given the context it holds:
\*   "inc"        ctx => ({ ...ctx, count: ctx.count + 1 })
\*   "replace"    ctx => ({ only: 1 })       (a function whose result omits the prior keys)
\*   "partial"    { b: 7 }                   (a partial object)
\*   "undef"      { a: undefined }
\*   "incPartial" { count: context.count + 1 }, from the `context` value it was handed
\*   "semi"       { b: 'x;y' }
IsFunctionArg(fn) == fn \in {"inc", "replace"}
HasCount(c) == "count" \in DOMAIN c
ApplyArg(fn, c) ==
    CASE fn = "inc" -> Spread(c, Ctx1("count", IF HasCount(c) /\ c["count"] >= 0 THEN c["count"] + 1
                                           ELSE IF HasCount(c) /\ c["count"] = Null THEN 1
                                           ELSE NaN))
      [] fn = "replace" -> Ctx1("only", 1)
      [] fn = "partial" -> Ctx1("b", 7)
      [] fn = "undef" -> Ctx1("a", Undefined)
      [] fn = "semi" -> Ctx1("b", Semi)
      [] fn = "incPartial" -> Ctx1("count", IF HasCount(c) /\ c["count"] >= 0 THEN c["count"] + 1 ELSE NaN)
      [] OTHER -> EmptyContext

updateContext_priorWins(context, fn) == Spread(ApplyArg(fn, context), context)

updateContext_dropsPrior(context, fn) == ApplyArg(fn, context)

\* index.ts:264-276
updateContext(context, fn) == Spread(context, ApplyArg(fn, context))

----------------------------------------------------------------------------
(* The resolver of the first program (index.ts:278-318) *)

RECURSIVE mergeMocks(_)
\* index.ts:278-286 (a bare list is its own mock list; the model keeps it in `mocks`)
mergeMocks(entries) ==
    IF Len(entries) = 0 THEN <<>>
    ELSE Head(entries).mocks \o mergeMocks(Tail(entries))

RECURSIVE getInitialContextFrom(_, _)
getInitialContextFrom(context, entries) ==
    IF Len(entries) = 0 THEN context
    ELSE LET mock == Head(entries)
         IN getInitialContextFrom(
                IF ~mock.isArray /\ mock.hasContext THEN Spread(context, mock.context) ELSE context,
                Tail(entries))

getInitialContext_firstWins(entries) ==
    LET RECURSIVE go(_, _)
        go(context, es) ==
            IF Len(es) = 0 THEN context
            ELSE LET mock == Head(es)
                 IN go(IF ~mock.isArray /\ mock.hasContext THEN Spread(mock.context, context) ELSE context,
                       Tail(es))
    IN go(EmptyContext, entries)

\* index.ts:288-297
getInitialContext(entries) == getInitialContextFrom(EmptyContext, entries)

\* a mock's (method, url text) signature: url.toString() and method
SameSignature(m1, m2) == m1.url = m2.url /\ m1.method = m2.method

\* ./http getHttpMocks: the HTTP mocks of the merged list, in order; a mock is replaced
\* by a later mock of the same signature (spec 4.1 steps 3 and 4)
getHttpMocks(mocks) ==
    LET keep == {i \in 1..Len(mocks) :
                    /\ mocks[i].method # "GRAPHQL"
                    /\ ~\E j \in (i+1)..Len(mocks) : SameSignature(mocks[i], mocks[j])}
        RECURSIVE pick(_)
        pick(i) == IF i > Len(mocks) THEN <<>>
                   ELSE (IF i \in keep THEN <<mocks[i]>> ELSE <<>>) \o pick(i + 1)
    IN pick(1)

\* ./graph-ql getGraphQlMocks: the mocks whose method is GRAPHQL, in order (spec 4.1 step 4)
getGraphQlMocks(mocks) == SelectSeq(mocks, LAMBDA m : m.method = "GRAPHQL")

\* index.ts:299-318.  scenarioMocks[scenario] of an unknown name is undefined and
\* mergeMocks then throws a TypeError.
getMocksAndInitialContext(dm, sm, scenarios) ==
    IF \E i \in 1..Len(scenarios) : scenarios[i] \notin DOMAIN sm
    THEN [threw |-> TRUE, mocks |-> <<>>, httpMocks |-> <<>>, graphQlMocks |-> <<>>,
          initialContext |-> EmptyContext]
    ELSE LET defaultAndScenarioMocks == <<dm>> \o [i \in 1..Len(scenarios) |-> sm[scenarios[i]]]
             mocks == mergeMocks(defaultAndScenarioMocks)
         IN [threw |-> FALSE,
             mocks |-> mocks,
             httpMocks |-> getHttpMocks(mocks),
             graphQlMocks |-> getGraphQlMocks(mocks),
             initialContext |-> getInitialContext(defaultAndScenarioMocks)]

----------------------------------------------------------------------------
(* The resolver of the second program (index.ts:530-586) *)

NoMessage == [text |-> "", scenario |-> "", other |-> "", group |-> ""]
GroupMessage(s, o, g) == [text |-> "cannot be selected", scenario |-> s, other |-> o, group |-> g]

\* the property key of mocks.group: a missing group reads as undefined and keys "undefined"
GroupKey(entry) == IF entry.hasGroup THEN entry.group ELSE "undefined"

NoGroups == [g \in {} |-> ""]

RECURSIVE reduceSelected(_, _, _, _)
\* index.ts:543-574, the reduce over selectedScenarios; groups maps a group to the
\* scenario that took it
reduceSelected(sm, selected, groups, reducedMocks) ==
    IF Len(selected) = 0 THEN [threw |-> FALSE, message |-> NoMessage, mocks |-> reducedMocks]
    ELSE LET selectedScenario == Head(selected)
         IN IF selectedScenario \notin DOMAIN sm
            THEN reduceSelected(sm, Tail(selected), groups, reducedMocks)
            ELSE LET mocks == sm[selectedScenario]
                 IN IF mocks.isArray
                    THEN reduceSelected(sm, Tail(selected), groups, reducedMocks \o mocks.mocks)
                    ELSE IF GroupKey(mocks) \in DOMAIN groups
                    THEN [threw |-> TRUE,
                          message |-> GroupMessage(selectedScenario, groups[GroupKey(mocks)],
                                                   GroupKey(mocks)),
                          mocks |-> <<>>]
                    ELSE reduceSelected(sm, Tail(selected),
                                        Spread(groups, (GroupKey(mocks) :> selectedScenario)),
                                        reducedMocks \o mocks.mocks)

reduceAllMocksForScenarios_keepsDefaults(dm, sm, selected) ==
    LET r == reduceSelected(sm, selected, NoGroups, <<>>)
    IN IF r.threw THEN r ELSE [r EXCEPT !.mocks = dm \o r.mocks]

reduceAllMocksForScenarios_dropsDuplicates(dm, sm, selected) ==
    LET r == reduceSelected(sm, selected, NoGroups, <<>>)
        all == dm \o r.mocks
    IN IF r.threw THEN r
       ELSE [r EXCEPT !.mocks =
                SelectSeq(dm, LAMBDA d : Cardinality({i \in 1..Len(all) : SameSignature(all[i], d)}) = 1)
                \o r.mocks]

reduceAllMocksForScenarios_noGroups(dm, sm, selected) ==
    LET flat == mergeMocks([i \in 1..Len(selected) |->
                              IF selected[i] \in DOMAIN sm THEN sm[selected[i]] ELSE Bare(<<>>)])
    IN [threw |-> FALSE, message |-> NoMessage,
        mocks |-> SelectSeq(dm, LAMBDA d : ~\E i \in 1..Len(flat) : SameSignature(flat[i], d))
                  \o flat]

\* a resolver in which a later scenario's mock replaces an earlier one of its signature
reduceAllMocksForScenarios_laterWins(dm, sm, selected) ==
    IF Len(selected) = 0 THEN [threw |-> FALSE, message |-> NoMessage, mocks |-> dm]
    ELSE LET r == reduceSelected(sm, selected, NoGroups, <<>>)
         IN IF r.threw THEN r ELSE [r EXCEPT !.mocks = getHttpMocks(dm \o r.mocks)]

\* index.ts:530-586; dm is the default mock list
reduceAllMocksForScenarios(dm, sm, selected) ==
    IF Len(selected) = 0 THEN [threw |-> FALSE, message |-> NoMessage, mocks |-> dm]
    ELSE LET r == reduceSelected(sm, selected, NoGroups, <<>>)
         IN IF r.threw THEN r
            ELSE [r EXCEPT !.mocks =
                     SelectSeq(dm, LAMBDA defaultMock :
                                     ~\E i \in 1..Len(r.mocks) : SameSignature(r.mocks[i], defaultMock))
                     \o r.mocks]

MethodMessage(m) == [text |-> "Unrecognised HTTP method", scenario |-> "", other |-> "", group |-> m]

\* index.ts:636-661, the methods the switch registers
RoutedMethods_2 == {"GET", "POST", "PUT", "DELETE"}

\* index.ts:594-666: the routes registered, in order, or the error thrown
createRouter_2(dm, sm, selected) ==
    LET r == reduceAllMocksForScenarios(dm, sm, selected)
    IN IF r.threw THEN r
       ELSE IF \E i \in 1..Len(r.mocks) : r.mocks[i].method \notin RoutedMethods_2
       THEN LET bad == CHOOSE i \in 1..Len(r.mocks) :
                          /\ r.mocks[i].method \notin RoutedMethods_2
                          /\ \A j \in 1..(i-1) : r.mocks[j].method \in RoutedMethods_2
            IN [threw |-> TRUE, message |-> MethodMessage(r.mocks[bad].method), mocks |-> <<>>]
       ELSE r

----------------------------------------------------------------------------
(* Matching *)

\* decodeURIComponent on the path segments the model sends
decodeURIComponent(s) == IF s = "%31" THEN "1" ELSE s

NoParams == [n \in {} |-> ""]

\* index.ts:342-366 with path-to-regexp: a pattern matches a path of the same length whose
\* literal segments are equal; each :name segment captures one path segment
getMatchAndParams(reqPath, mockUrl) ==
    IF /\ Len(reqPath) = Len(mockUrl)
       /\ \A i \in 1..Len(mockUrl) : mockUrl[i].k = "lit" => mockUrl[i].v = reqPath[i]
    THEN [match |-> TRUE,
          params |-> [n \in {mockUrl[i].v : i \in {j \in 1..Len(mockUrl) : mockUrl[j].k = "param"}} |->
                         decodeURIComponent(
                            reqPath[CHOOSE i \in 1..Len(mockUrl) :
                                        mockUrl[i].k = "param" /\ mockUrl[i].v = n])]]
    ELSE [match |-> FALSE, params |-> NoParams]

NoMock == Mock("", <<>>, "", "")

getHttpMockAndParams_pathOnly(method, reqPath, httpMocks) ==
    LET hits == {i \in 1..Len(httpMocks) : getMatchAndParams(reqPath, httpMocks[i].url).match}
    IN IF hits = {} THEN [found |-> FALSE, httpMock |-> NoMock, params |-> NoParams]
       ELSE LET first == CHOOSE i \in hits : \A j \in hits : i <= j
            IN [found |-> TRUE, httpMock |-> httpMocks[first],
                params |-> getMatchAndParams(reqPath, httpMocks[first].url).params]

getHttpMockAndParams_last(method, reqPath, httpMocks) ==
    LET hits == {i \in 1..Len(httpMocks) :
                    /\ httpMocks[i].method = method
                    /\ getMatchAndParams(reqPath, httpMocks[i].url).match}
    IN IF hits = {} THEN [found |-> FALSE, httpMock |-> NoMock, params |-> NoParams]
       ELSE LET last == CHOOSE i \in hits : \A j \in hits : i >= j
            IN [found |-> TRUE, httpMock |-> httpMocks[last],
                params |-> getMatchAndParams(reqPath, httpMocks[last].url).params]

\* index.ts:320-340: Array.find takes the first mock whose method and path match; params
\* is that of the last mock find looked at
getHttpMockAndParams(method, reqPath, httpMocks) ==
    LET hits == {i \in 1..Len(httpMocks) :
                    /\ httpMocks[i].method = method
                    /\ getMatchAndParams(reqPath, httpMocks[i].url).match}
    IN IF hits = {}
       THEN [found |-> FALSE, httpMock |-> NoMock,
             params |-> IF Len(httpMocks) = 0 THEN NoParams
                        ELSE getMatchAndParams(reqPath, httpMocks[Len(httpMocks)].url).params]
       ELSE LET first == CHOOSE i \in hits : \A j \in hits : i <= j
            IN [found |-> TRUE, httpMock |-> httpMocks[first],
                params |-> getMatchAndParams(reqPath, httpMocks[first].url).params]

\* express Router: the first registered route whose method and path match
RouterMatch(method, reqPath, routes) == getHttpMockAndParams(method, reqPath, routes)

----------------------------------------------------------------------------
(* Startup configurations *)

\* a `default` with a context, and the scenarios it is started with
DefaultCtx == Entry(FALSE, "", TRUE, Ctx2("a", 1, "count", 0),
                    <<Mock("GET", UrlA, "Da", "inc"),
                      Mock("GET", UrlB, "Db", "read"),
                      Mock("GET", UrlUId, "Du", "static"),
                      Mock("GRAPHQL", UrlGql, "Dg", "static")>>)

\* a `default` that is a mock list
DefaultList == Bare(<<Mock("GET", UrlA, "Da", "static"),
                      Mock("GET", UrlB, "Db", "static"),
                      Mock("GET", UrlUId, "Du", "static")>>)

\* s1 and s2 share a group; s2 holds a PATCH mock, a method the second program does
\* not route; s3 is a bare mock list whose GET /a collides with s1's
ScenarioCatalog ==
    ("s1" :> Entry(TRUE, "g", TRUE, Ctx1("b", 2), <<Mock("GET", UrlA, "S1a", "replace")>>))
    @@ ("s2" :> Entry(TRUE, "g", TRUE, Ctx2("a", 3, "b", 5),
                      <<Mock("GET", UrlC, "S2c", "partial"), Mock("PATCH", UrlB, "S2b", "static")>>))
    @@ ("s3" :> Bare(<<Mock("GET", UrlU1, "S3u", "undef"), Mock("GET", UrlA, "S3a", "static")>>))

\* the `default` and the scenarios the cookie-mode server is started with
DefaultCookie == Entry(FALSE, "", TRUE, Ctx1("a", 1),
                       <<Mock("GET", UrlA, "Da", "partial"),
                         Mock("GET", UrlB, "Db", "read"),
                         Mock("GRAPHQL", UrlGql, "Dg", "static")>>)

CookieCatalog ==
    ("s1" :> Entry(TRUE, "g", TRUE, Ctx1("b", 2), <<Mock("GET", UrlA, "S1a", "read")>>))
    @@ ("s3" :> Bare(<<Mock("GET", UrlU1, "S3u", "undef")>>))

\* the clients are those that hold a cookie jar
Clients == DOMAIN cookies
SharedKey == "shared"

RECURSIVE SeqsUpTo(_, _)
SeqsUpTo(S, n) == IF n = 0 THEN {<<>>}
                  ELSE LET shorter == SeqsUpTo(S, n - 1)
                       IN shorter \cup {Append(q, x) : q \in {t \in shorter : Len(t) = n - 1}, x \in S}

\* req.body.scenarios: an array of at most n names, configured or not, or something
\* that is not an array
Bodies(names, n) == {[isArray |-> TRUE, names |-> q] : q \in SeqsUpTo(names \cup {"doesNotExist"}, n)}
                    \cup {[isArray |-> FALSE, names |-> <<>>]}

----------------------------------------------------------------------------
(* Cookies: JSON.stringify on the way out, JSON.parse on the way in *)

\* JSON.stringify of a context leaves out the keys whose value is undefined and
\* writes NaN as null; the text is modelled by the value it denotes
JSONstringify(context) ==
    [k \in {x \in DOMAIN context : context[x] # Undefined} |->
        IF context[k] = NaN THEN Null ELSE context[k]]

JSONparse(text) == text

\* res.cookie(name, text, { encode: String }) (index.ts:196-198) writes the text as it is
\* into Set-Cookie, where the cookie's value ends at the first semicolon: the client
\* keeps a text cut short, which is not JSON
CutShort(text) == \E k \in DOMAIN text : text[k] = Semi

\* a client's cookie jar: the `scenarios` and `context` cookies, when it holds them;
\* `malformed` when the text of the `context` cookie is not JSON
NoCookies == [hasScenarios |-> FALSE, scenarios |-> <<>>, hasContext |-> FALSE, context |-> EmptyContext,
              malformed |-> FALSE]

----------------------------------------------------------------------------
(* Routers and responses *)

\* a router: the resolved mock list it was built from, the HTTP and GraphQL routes applied
\* to it, and the `context` of its closure
Router(mocks, http, gql, ctx) ==
    [mocks |-> mocks, httpMocks |-> http, graphQlMocks |-> gql, context |-> ctx]
\* the router of the second program: every resolved mock is a route
Router_2(mocks) == Router(mocks, mocks, <<>>, EmptyContext)

\* index.ts:151-204: the cookie router closes over no mocks and no context
CookieRouter == Router(<<>>, <<>>, <<>>, EmptyContext)

\* index.ts:215-262: the routes applied and the closure's `context`
createRouter(dm, sm, scenarios) ==
    LET r == getMocksAndInitialContext(dm, sm, scenarios)
    IN Router(r.mocks, r.httpMocks, r.graphQlMocks, r.initialContext)

\* a request: req.method, req.path and, for an activation, req.body.scenarios
NoBody == [isArray |-> FALSE, names |-> <<>>]
ArrayBody(names) == [isArray |-> TRUE, names |-> names]
Request(method, reqPath, body) == [method |-> method, path |-> reqPath, body |-> body]
MockRequest(method, reqPath) == Request(method, reqPath, NoBody)
ModifyRequest(body) == Request("PUT", <<"modify-scenarios">>, body)
ResetRequest == Request("PUT", <<"reset-scenarios">>, NoBody)

\* the request last answered and its response: `context` is the context handed to the
\* response function, `newContext` the context the store holds when the response is
\* sent, `first` whether the request is the first mock run since the requester's last
\* activation
Response(route, c, req, status, message, response, context, newContext, params, first) ==
    [route |-> route, client |-> c, req |-> req, status |-> status, message |-> message,
     response |-> response, context |-> context, newContext |-> newContext,
     params |-> params, first |-> first]

NoResponse == Response("boot", "", MockRequest("", <<>>), 0, NoMessage, "", EmptyContext,
                       EmptyContext, NoParams, FALSE)
ActivationResponse(route, c, req, status, message) ==
    Response(route, c, req, status, message, "", EmptyContext, EmptyContext, NoParams, FALSE)
NotFound(c, req) ==
    Response("mock", c, req, 404, NoMessage, "", EmptyContext, EmptyContext, NoParams, FALSE)
ServerError(c, req) ==
    Response("mock", c, req, 500, NoMessage, "", EmptyContext, EmptyContext, NoParams, FALSE)

NotArrayMessage == [text |-> "must be an array", scenario |-> "", other |-> "", group |-> ""]
UnknownMessage(s) == [text |-> "does not exist", scenario |-> s, other |-> "", group |-> ""]

\* the first name of the body that is not a configured scenario
FirstUnknown(names, scenarioNames) ==
    names[CHOOSE i \in 1..Len(names) :
            /\ names[i] \notin scenarioNames
            /\ \A j \in 1..(i-1) : names[j] \in scenarioNames]

----------------------------------------------------------------------------
(* Requests in flight *)

\* the requests the clients can have outstanding at one time
RequestIds == {"r1", "r2"}

\* a handler that has not answered yet: the request, the mock express matched when it was
\* dispatched, the `context` value handed to the response function, and the closure the
\* handler's getContext/updateContext belong to: age 0 is the router in use, age n > 0 a
\* router replaced since, whose `context` lives on in `closure`.  A handler whose promise
\* rejected with nobody catching it is "hung".
Handler(phase, req, mock, handed, params, age, closure) ==
    [phase |-> phase, req |-> req, mock |-> mock, handed |-> handed, params |-> params,
     age |-> age, closure |-> closure]
Idle == Handler("idle", MockRequest("", <<>>), NoMock, EmptyContext, NoParams, 0, EmptyContext)
Busy(handlers) == {id \in DOMAIN handlers : handlers[id].phase # "idle"}

\* a swap after which the handlers in flight work on the context of the new router
Retired_sharesContext(handlers, context) == handlers

\* index.ts:206-211: `router = createRouter(...)` leaves the handlers in flight with the
\* closure of the router they were dispatched by; routers stay apart by their age
Retired(handlers, context) ==
    LET ages == {handlers[id].age + 1 : id \in Busy(handlers)}
    IN [id \in DOMAIN handlers |->
           IF handlers[id].phase = "idle" THEN handlers[id]
           ELSE [handlers[id] EXCEPT
                    !.age = Cardinality({a \in ages : a <= handlers[id].age + 1}),
                    !.closure = IF handlers[id].age = 0 THEN context ELSE @]]

----------------------------------------------------------------------------
(* Activation *)

updateScenarios_keepsContext(updatedScenarios) ==
    /\ selectedScenarios' = updatedScenarios
    /\ router' = IF cookieMode THEN CookieRouter
                 ELSE [createRouter(defaultMocks, scenarioMocks, updatedScenarios)
                          EXCEPT !.context = router.context]

\* index.ts:146-212
updateScenarios(updatedScenarios) ==
    /\ selectedScenarios' = updatedScenarios
    /\ router' = IF cookieMode THEN CookieRouter
                 ELSE IF getMocksAndInitialContext(defaultMocks, scenarioMocks, updatedScenarios).threw
                 THEN router
                 ELSE createRouter(defaultMocks, scenarioMocks, updatedScenarios)

\* an activation that selects for the whole process in cookie mode too
updateScenariosCallback_processWide(c, updatedScenarios) ==
    IF cookieMode
    THEN /\ cookies' = [cookies EXCEPT ![c].hasScenarios = TRUE,
                                       ![c].scenarios = updatedScenarios]
         /\ fresh' = fresh \cup {c}
         /\ selectedScenarios' = updatedScenarios
         /\ UNCHANGED <<router, inflight>>
    ELSE /\ updateScenarios(updatedScenarios)
         /\ fresh' = {SharedKey}
         /\ inflight' = Retired(inflight, router.context)
         /\ UNCHANGED cookies

\* index.ts:106-116 and 122-132, the updateScenarios callback handed to ./apis
updateScenariosCallback(c, updatedScenarios) ==
    IF cookieMode
    THEN /\ cookies' = [cookies EXCEPT ![c].hasScenarios = TRUE,
                                       ![c].scenarios = updatedScenarios]
         /\ fresh' = fresh \cup {c}
         /\ UNCHANGED <<selectedScenarios, router, inflight>>
    ELSE /\ updateScenarios(updatedScenarios)
         /\ fresh' = {SharedKey}
         /\ inflight' = Retired(inflight, router.context)
         /\ UNCHANGED cookies

\* spec 4.1 step 2: the selected scenarios whose non-null group an earlier one declared
Grouped(sm, name) == ~sm[name].isArray /\ sm[name].hasGroup
GroupConflicts(sm, names) ==
    {i \in 1..Len(names) :
        /\ Grouped(sm, names[i])
        /\ \E j \in 1..(i-1) : Grouped(sm, names[j]) /\ sm[names[j]].group = sm[names[i]].group}
GroupConflictMessage(sm, names) ==
    LET i == CHOOSE x \in GroupConflicts(sm, names) : \A y \in GroupConflicts(sm, names) : x <= y
        earlier == {x \in 1..(i-1) : Grouped(sm, names[x]) /\ sm[names[x]].group = sm[names[i]].group}
        j == CHOOSE x \in earlier : \A y \in earlier : x <= y
    IN GroupMessage(names[i], names[j], sm[names[i]].group)

\* ./apis modifyScenarios behind app.put(modifyScenariosPath) (index.ts:102-118):
\* spec 4.5 and 6
modifyScenarios(c, body) ==
    /\ impl = "ctx"
    /\ IF ~body.isArray
       THEN /\ res' = ActivationResponse("modify", c, ModifyRequest(body), 400, NotArrayMessage)
            /\ UNCHANGED <<selectedScenarios, router, cookies, fresh, inflight>>
       ELSE IF \E i \in 1..Len(body.names) : body.names[i] \notin DOMAIN scenarioMocks
       THEN /\ res' = ActivationResponse("modify", c, ModifyRequest(body), 400,
                                         UnknownMessage(FirstUnknown(body.names, DOMAIN scenarioMocks)))
            /\ UNCHANGED <<selectedScenarios, router, cookies, fresh, inflight>>
       ELSE IF GroupConflicts(scenarioMocks, body.names) # {}
       THEN /\ res' = ActivationResponse("modify", c, ModifyRequest(body), 500,
                                         GroupConflictMessage(scenarioMocks, body.names))
            /\ UNCHANGED <<selectedScenarios, router, cookies, fresh, inflight>>
       ELSE /\ updateScenariosCallback(c, body.names)
            /\ res' = ActivationResponse("modify", c, ModifyRequest(body), 204, NoMessage)
    /\ UNCHANGED <<impl, cookieMode, defaultMocks, scenarioMocks>>

\* ./apis resetScenarios behind app.put(resetScenariosPath) (index.ts:120-134)
resetScenarios(c) ==
    /\ impl = "ctx"
    /\ updateScenariosCallback(c, <<>>)
    /\ res' = ActivationResponse("reset", c, ResetRequest, 204, NoMessage)
    /\ UNCHANGED <<impl, cookieMode, defaultMocks, scenarioMocks>>

activate_2_selectsFirst(names) ==
    LET r == createRouter_2(defaultMocks.mocks, scenarioMocks, names)
    IN /\ selectedScenarios' = names
       /\ router' = IF r.threw THEN router ELSE Router_2(r.mocks)
       /\ res' = ActivationResponse("modify", "", ModifyRequest(ArrayBody(names)), IF r.threw THEN 500 ELSE 204, r.message)
       /\ fresh' = IF r.threw THEN fresh ELSE {SharedKey}

\* index.ts:493-506: createRouter inside try, then updateScenarios and the 204
activate_2(names) ==
    LET r == createRouter_2(defaultMocks.mocks, scenarioMocks, names)
    IN IF r.threw
       THEN /\ res' = ActivationResponse("modify", "", ModifyRequest(ArrayBody(names)), 500, r.message)
            /\ UNCHANGED <<selectedScenarios, router, fresh>>
       ELSE /\ router' = Router_2(r.mocks)
            /\ selectedScenarios' = names
            /\ res' = ActivationResponse("modify", "", ModifyRequest(ArrayBody(names)), 204, NoMessage)
            /\ fresh' = {SharedKey}

modifyScenarios_2_noNameCheck(body) ==
    /\ impl = "grp"
    /\ IF ~body.isArray
       THEN /\ res' = ActivationResponse("modify", "", ModifyRequest(body), 400, NotArrayMessage)
            /\ UNCHANGED <<selectedScenarios, router, fresh>>
       ELSE activate_2(body.names)
    /\ UNCHANGED <<impl, cookieMode, defaultMocks, scenarioMocks, cookies, inflight>>

\* index.ts:473-508, app.put('/modify-scenarios') of the second program
modifyScenarios_2(body) ==
    /\ impl = "grp"
    /\ IF ~body.isArray
       THEN /\ res' = ActivationResponse("modify", "", ModifyRequest(body), 400, NotArrayMessage)
            /\ UNCHANGED <<selectedScenarios, router, fresh>>
       ELSE IF \E i \in 1..Len(body.names) : body.names[i] \notin DOMAIN scenarioMocks
       THEN /\ res' = ActivationResponse("modify", "", ModifyRequest(body), 400,
                                         UnknownMessage(FirstUnknown(body.names, DOMAIN scenarioMocks)))
            /\ UNCHANGED <<selectedScenarios, router, fresh>>
       ELSE activate_2(body.names)
    /\ UNCHANGED <<impl, cookieMode, defaultMocks, scenarioMocks, cookies, inflight>>

----------------------------------------------------------------------------
(* Mock requests *)

\* the response function of a matched mock runs with the context it is handed and the
\* store's update callback; the context it leaves in the store
Updates(fn) == fn \in {"inc", "replace", "partial", "undef", "incPartial", "semi"}
AfterResponse(context, fn) == IF Updates(fn) THEN updateContext(context, fn) ELSE context

\* a counter is not driven past MaxCount
WithinBound(context, fn) ==
    fn \in {"inc", "incPartial"} => (HasCount(context) /\ context["count"] < MaxCount)

\* applyGraphQlRoutes (./graph-ql): a GraphQL mock answers GET and POST on exactly its url
GraphQlMatch(method, reqPath, graphQlMocks) ==
    {i \in 1..Len(graphQlMocks) :
        /\ method \in {"GET", "POST"}
        /\ Len(graphQlMocks[i].url) = Len(reqPath)
        /\ \A k \in 1..Len(reqPath) : graphQlMocks[i].url[k].v = reqPath[k]}

\* index.ts:136-138 with the router of createRouter (index.ts:215-262): the routes of
\* applyHttpRoutes, then those of applyGraphQlRoutes; a matched mock is run by
\* ./create-handler with getContext() and localUpdateContext (index.ts:251-261)
sharedRequest(method, reqPath) ==
    /\ impl = "ctx"
    /\ ~cookieMode
    /\ LET m == RouterMatch(method, reqPath, router.httpMocks)
           g == GraphQlMatch(method, reqPath, router.graphQlMocks)
       IN IF m.found
          THEN /\ WithinBound(router.context, m.httpMock.fn)
               /\ router' = [router EXCEPT !.context = AfterResponse(router.context, m.httpMock.fn)]
               /\ res' = Response("mock", "", MockRequest(method, reqPath), 200, NoMessage, m.httpMock.response,
                                  router.context, router'.context, m.params, SharedKey \in fresh)
               /\ fresh' = {}
          ELSE IF g # {}
          THEN /\ res' = Response("graphql", "", MockRequest(method, reqPath), 200, NoMessage,
                                  router.graphQlMocks[CHOOSE i \in g : \A j \in g : i <= j].response,
                                  router.context, router.context, NoParams, FALSE)
               /\ UNCHANGED <<router, fresh>>
          ELSE /\ res' = NotFound("", MockRequest(method, reqPath))
               /\ UNCHANGED <<router, fresh>>
    /\ UNCHANGED <<impl, cookieMode, defaultMocks, scenarioMocks, selectedScenarios, cookies, inflight>>

\* index.ts:153-202, the handler of the cookie router; the client keeps the cookies
\* the response sets
cookieRequest(c, method, reqPath) ==
    /\ impl = "ctx"
    /\ cookieMode
    /\ LET scenarios == IF cookies[c].hasScenarios THEN JSONparse(cookies[c].scenarios) ELSE <<>>
           r == getMocksAndInitialContext(defaultMocks, scenarioMocks, scenarios)
           context == IF cookies[c].hasContext THEN JSONparse(cookies[c].context)
                      ELSE r.initialContext
           m == getHttpMockAndParams(method, reqPath, r.httpMocks)
       IN IF r.threw
          THEN /\ res' = Response("mock", c, MockRequest(method, reqPath), 500, NoMessage, "", EmptyContext, EmptyContext,
                                  NoParams, FALSE)
               /\ UNCHANGED <<cookies, fresh>>
          ELSE IF cookies[c].hasContext /\ cookies[c].malformed
          THEN \* index.ts:167-168: JSON.parse throws, express answers 500
               /\ res' = ServerError(c, MockRequest(method, reqPath))
               /\ UNCHANGED <<cookies, fresh>>
          ELSE IF ~m.found
          THEN /\ res' = NotFound(c, MockRequest(method, reqPath))
               /\ UNCHANGED <<cookies, fresh>>
          ELSE /\ WithinBound(context, m.httpMock.fn)
               /\ cookies' = IF Updates(m.httpMock.fn)
                             THEN LET text == JSONstringify(updateContext(context, m.httpMock.fn))
                                  IN [cookies EXCEPT ![c].hasContext = TRUE,
                                                     ![c].context = text,
                                                     ![c].malformed = CutShort(text)]
                             ELSE cookies
               /\ res' = Response("mock", c, MockRequest(method, reqPath), 200, NoMessage, m.httpMock.response,
                                  context, AfterResponse(context, m.httpMock.fn), m.params,
                                  c \in fresh)
               /\ fresh' = fresh \ {c}
    /\ UNCHANGED <<impl, cookieMode, defaultMocks, scenarioMocks, selectedScenarios, router, inflight>>

\* index.ts:510-512 with the routes of createRouter (index.ts:594-666): the handler of
\* the first route that matches answers with the mock's response
request_2(method, reqPath) ==
    /\ impl = "grp"
    /\ LET m == RouterMatch(method, reqPath, router.httpMocks)
       IN IF m.found
          THEN /\ res' = Response("mock", "", MockRequest(method, reqPath), 200, NoMessage, m.httpMock.response,
                                  EmptyContext, EmptyContext, m.params, SharedKey \in fresh)
               /\ fresh' = {}
          ELSE /\ res' = NotFound("", MockRequest(method, reqPath))
               /\ UNCHANGED fresh
    /\ UNCHANGED <<impl, cookieMode, defaultMocks, scenarioMocks, selectedScenarios, router, cookies,
                   inflight>>

----------------------------------------------------------------------------
(* Mock requests whose handlers answer later *)

\* A response function may be asynchronous (types.ts:27-32) and a response may be
\* delayed (types.ts:40-45, index.ts:526-528): the handler is entered when the request is
\* dispatched and answers in a later turn of the event loop.  Response functions:
\*   "rejects"    async () => { throw ... }    (the promise it returns rejects)
\*   "throws"     () => { throw ... }          (it throws before returning a promise)
\* and those of the context store, which call updateContext once when they resume.
Fails(fn) == fn \in {"rejects", "throws"}
Increments(fn) == fn \in {"inc", "incPartial"}

\* index.ts:251-257, called by a response function that resumes: the store of the
\* handler's closure after the call.  An updater function is applied to the store's
\* value, a partial object was computed from the value the function was handed.
StoreAfter(store, handed, fn) ==
    IF fn = "incPartial" THEN Spread(store, ApplyArg(fn, handed))
    ELSE AfterResponse(store, fn)

\* the store a handler's closure holds
StoreOf(h) == IF h.age = 0 THEN router.context ELSE h.closure

\* counters are not driven past MaxCount: the increments in flight count too
IncrementsInFlight == Cardinality({id \in Busy(inflight) : Increments(inflight[id].mock.fn)})
RoomToCount(fn) ==
    Increments(fn) => (HasCount(router.context) /\ router.context["count"] >= 0
                       /\ router.context["count"] + IncrementsInFlight < MaxCount)

\* index.ts:136-138 with the routes of createRouter (index.ts:215-249): the request is
\* matched against the router in use and its handler entered; ./create-handler hands
\* the response function getContext() and localUpdateContext
dispatchShared(id, method, reqPath) ==
    /\ impl = "ctx"
    /\ ~cookieMode
    /\ inflight[id].phase = "idle"
    /\ LET m == RouterMatch(method, reqPath, router.httpMocks)
           g == GraphQlMatch(method, reqPath, router.graphQlMocks)
       IN IF m.found
          THEN /\ RoomToCount(m.httpMock.fn)
               /\ inflight' = [inflight EXCEPT ![id] =
                                  Handler("running", MockRequest(method, reqPath), m.httpMock,
                                          router.context, m.params, 0, EmptyContext)]
               /\ fresh' = {}
               /\ UNCHANGED res
          ELSE IF g # {}
          THEN /\ res' = Response("graphql", "", MockRequest(method, reqPath), 200, NoMessage,
                                  router.graphQlMocks[CHOOSE i \in g : \A j \in g : i <= j].response,
                                  router.context, router.context, NoParams, FALSE)
               /\ UNCHANGED <<fresh, inflight>>
          ELSE /\ res' = NotFound("", MockRequest(method, reqPath))
               /\ UNCHANGED <<fresh, inflight>>
    /\ UNCHANGED <<impl, cookieMode, defaultMocks, scenarioMocks, selectedScenarios, router, cookies>>

\* the response function of a handler resumes: it updates the store of its closure
\* and the handler answers; ./create-handler answers a failure with a server error
\* (spec 7)
completeShared(id) ==
    /\ impl = "ctx"
    /\ ~cookieMode
    /\ inflight[id].phase = "running"
    /\ LET h == inflight[id]
           store == StoreAfter(StoreOf(h), h.handed, h.mock.fn)
       IN /\ res' = IF Fails(h.mock.fn) THEN ServerError("", h.req)
                    ELSE Response("mock", "", h.req, 200, NoMessage, h.mock.response,
                                  h.handed, store, h.params, FALSE)
          /\ router' = IF h.age = 0 THEN [router EXCEPT !.context = store] ELSE router
          /\ inflight' = [x \in DOMAIN inflight |->
                             IF x = id THEN Idle
                             ELSE IF inflight[x].phase # "idle" /\ inflight[x].age = h.age /\ h.age > 0
                             THEN [inflight[x] EXCEPT !.closure = store]
                             ELSE inflight[x]]
    /\ UNCHANGED <<impl, cookieMode, defaultMocks, scenarioMocks, selectedScenarios, cookies, fresh>>

\* a server that sleeps through a delay takes no request while a handler waits
dispatch_2_blocking(id, method, reqPath) ==
    /\ impl = "grp"
    /\ Busy(inflight) = {}
    /\ LET m == RouterMatch(method, reqPath, router.httpMocks)
       IN IF ~m.found
          THEN /\ res' = NotFound("", MockRequest(method, reqPath))
               /\ UNCHANGED <<fresh, inflight>>
          ELSE IF m.httpMock.fn = "throws"
          THEN /\ res' = ServerError("", MockRequest(method, reqPath))
               /\ fresh' = {}
               /\ UNCHANGED inflight
          ELSE /\ inflight' = [inflight EXCEPT ![id] =
                                  Handler("running", MockRequest(method, reqPath), m.httpMock,
                                          EmptyContext, m.params, 0, EmptyContext)]
               /\ fresh' = {}
               /\ UNCHANGED res
    /\ UNCHANGED <<impl, cookieMode, defaultMocks, scenarioMocks, selectedScenarios, router, cookies>>

\* index.ts:510-512 with the routes of createRouter (index.ts:594-666): handler
\* (index.ts:616-634) is entered; a response function that throws before it returns a
\* promise leaves the route handler by the exception, which express answers with 500
dispatch_2(id, method, reqPath) ==
    /\ impl = "grp"
    /\ inflight[id].phase = "idle"
    /\ LET m == RouterMatch(method, reqPath, router.httpMocks)
       IN IF ~m.found
          THEN /\ res' = NotFound("", MockRequest(method, reqPath))
               /\ UNCHANGED <<fresh, inflight>>
          ELSE IF m.httpMock.fn = "throws"
          THEN /\ res' = ServerError("", MockRequest(method, reqPath))
               /\ fresh' = {}
               /\ UNCHANGED inflight
          ELSE /\ inflight' = [inflight EXCEPT ![id] =
                                  Handler("running", MockRequest(method, reqPath), m.httpMock,
                                          EmptyContext, m.params, 0, EmptyContext)]
               /\ fresh' = {}
               /\ UNCHANGED res
    /\ UNCHANGED <<impl, cookieMode, defaultMocks, scenarioMocks, selectedScenarios, router, cookies>>

complete_2_currentRouter(id) ==
    /\ impl = "grp"
    /\ inflight[id].phase = "running"
    /\ LET h == inflight[id]
           m == RouterMatch(h.req.method, h.req.path, router.httpMocks)
       IN /\ inflight' = [inflight EXCEPT ![id] = Idle]
          /\ res' = IF m.found
                    THEN Response("mock", "", h.req, 200, NoMessage, m.httpMock.response,
                                  EmptyContext, EmptyContext, m.params, FALSE)
                    ELSE NotFound("", h.req)
    /\ UNCHANGED <<impl, cookieMode, defaultMocks, scenarioMocks, selectedScenarios, router, cookies,
                   fresh>>

\* index.ts:618-632: the promise of the response function, or of addDelay, settles; the
\* `then` callback answers with what the handler closed over; a rejection has no
\* callback and the request stays unanswered
complete_2(id) ==
    /\ impl = "grp"
    /\ inflight[id].phase = "running"
    /\ LET h == inflight[id]
       IN IF h.mock.fn = "rejects"
          THEN /\ inflight' = [inflight EXCEPT ![id].phase = "hung"]
               /\ UNCHANGED res
          ELSE /\ inflight' = [inflight EXCEPT ![id] = Idle]
               /\ res' = Response("mock", "", h.req, 200, NoMessage, h.mock.response,
                                  EmptyContext, EmptyContext, h.params, FALSE)
    /\ UNCHANGED <<impl, cookieMode, defaultMocks, scenarioMocks, selectedScenarios, router, cookies,
                   fresh>>

\* a `default` with a counter, served by response functions that answer later
DefaultAsync == Entry(FALSE, "", TRUE, Ctx1("count", 0),
                      <<Mock("GET", UrlA, "Da", "inc"),
                        Mock("GET", UrlB, "Db", "incPartial"),
                        Mock("GET", UrlC, "Dc", "rejects")>>)
\* a `default` of the second program: a delayed response and failing response functions
DefaultAsync_2 == Bare(<<Mock("GET", UrlA, "Da", "static"),
                         Mock("GET", UrlB, "Db", "throws"),
                         Mock("GET", UrlC, "Dc", "rejects")>>)
\* s1 overrides GET /a
AsyncCatalog == ("s1" :> Bare(<<Mock("GET", UrlA, "S1a", "static")>>))

----------------------------------------------------------------------------
(* The server *)

\* index.ts:19-38 and index.ts:391-401: the state once run() has built its first router
Started(i, cm, dm, sm, clients) ==
    /\ impl = i
    /\ cookieMode = cm
    /\ defaultMocks = dm
    /\ scenarioMocks = sm
    /\ selectedScenarios = <<>>
    /\ router = IF i = "grp"
                THEN Router_2(createRouter_2(dm.mocks, sm, <<>>).mocks)
                ELSE IF cm THEN CookieRouter
                ELSE createRouter(dm, sm, <<>>)
    /\ cookies = [c \in clients |-> NoCookies]
    /\ res = NoResponse
    /\ fresh = {}
    /\ inflight = [id \in RequestIds |-> Idle]

Init ==
    \/ Started("grp", FALSE, DefaultList, ScenarioCatalog, {"c1"})
    \/ Started("ctx", FALSE, DefaultCtx, ScenarioCatalog, {"c1"})
    \/ Started("ctx", TRUE, DefaultCookie, CookieCatalog, {"c1"})

Next ==
    \/ \E c \in Clients, body \in Bodies(DOMAIN scenarioMocks, MaxSel) : modifyScenarios(c, body)
    \/ \E c \in Clients : resetScenarios(c)
    \/ \E body \in Bodies(DOMAIN scenarioMocks, MaxSel) : modifyScenarios_2(body)
    \/ \E method \in ReqMethods, reqPath \in Paths : sharedRequest(method, reqPath)
    \/ \E c \in Clients, method \in ReqMethods, reqPath \in Paths : cookieRequest(c, method, reqPath)
    \/ \E method \in ReqMethods, reqPath \in Paths : request_2(method, reqPath)

Spec == Init /\ [][Next]_vars

----------------------------------------------------------------------------
(* The resolver over a family of default mock lists *)

\* the mocks a default list is drawn from: GET /a, which the scenarios s1 and s3
\* override; GET /u/:id, which no scenario overrides and which matches /u/1 too;
\* GET /u/1, which s3 overrides
DefaultPool == {Mock("GET", UrlA, "Da", "static"),
                Mock("GET", UrlUId, "Du", "static"),
                Mock("GET", UrlU1, "Du1", "static")}

InitResolve ==
    \E i \in {"grp", "ctx"}, q \in SeqsUpTo(DefaultPool, MaxDefaults) :
        Started(i, FALSE, Bare(q), ScenarioCatalog, {"c1"})

\* the selections of configured scenarios that resolve for the program that runs
Resolvable ==
    {q \in SeqsUpTo(DOMAIN scenarioMocks, MaxSel) :
        IF impl = "grp" THEN ~createRouter_2(defaultMocks.mocks, scenarioMocks, q).threw
        ELSE GroupConflicts(scenarioMocks, q) = {}}

\* the activation requests that select them, and the mock requests
NextResolve ==
    \/ \E c \in Clients, q \in Resolvable : modifyScenarios(c, ArrayBody(q))
    \/ \E c \in Clients : resetScenarios(c)
    \/ \E q \in Resolvable : modifyScenarios_2(ArrayBody(q))
    \/ \E method \in ReqMethods, reqPath \in Paths : sharedRequest(method, reqPath)
    \/ \E method \in ReqMethods, reqPath \in Paths : request_2(method, reqPath)

SpecResolve == InitResolve /\ [][NextResolve]_vars

----------------------------------------------------------------------------
(* The initial context over a family of configurations *)

\* a `default` object without a context
DefaultNoContext == Entry(FALSE, "", FALSE, EmptyContext, <<Mock("GET", UrlB, "Db", "read")>>)

\* scenarios of no group, so that any of them can be selected together: two with
\* contexts that overlap each other's and the default's keys, a mock list, and an
\* object without a context
ContextCatalog ==
    ("s1" :> Entry(FALSE, "", TRUE, Ctx1("b", 2), <<Mock("GET", UrlC, "S1c", "read")>>))
    @@ ("s2" :> Entry(FALSE, "", TRUE, Ctx2("a", 3, "b", 5), <<>>))
    @@ ("s3" :> Bare(<<Mock("GET", UrlU1, "S3u", "static")>>))
    @@ ("s4" :> Entry(FALSE, "", FALSE, EmptyContext, <<>>))

InitContext ==
    \E dm \in {DefaultCtx, DefaultList, DefaultNoContext} :
        Started("ctx", FALSE, dm, ContextCatalog, {"c1"})

NextContext ==
    \/ \E c \in Clients, q \in SeqsUpTo(DOMAIN scenarioMocks, MaxSel) : modifyScenarios(c, ArrayBody(q))
    \/ \E c \in Clients : resetScenarios(c)
    \/ \E reqPath \in {PathA, PathB, PathC} : sharedRequest("GET", reqPath)

SpecContext == InitContext /\ [][NextContext]_vars

----------------------------------------------------------------------------
(* Both programs started with scenarios that declare no group *)

\* types.ts:8-16: `group` is optional.  s1 and s2 are objects without a group, s3 is a
\* mock list, s4 declares group g; every mock is a GET, which both programs route
GroupCatalog ==
    ("s1" :> Entry(FALSE, "", FALSE, EmptyContext, <<Mock("GET", UrlA, "S1a", "static")>>))
    @@ ("s2" :> Entry(FALSE, "", FALSE, EmptyContext, <<Mock("GET", UrlC, "S2c", "static")>>))
    @@ ("s3" :> Bare(<<Mock("GET", UrlU1, "S3u", "static")>>))
    @@ ("s4" :> Entry(TRUE, "g", FALSE, EmptyContext, <<Mock("GET", UrlB, "S4b", "static")>>))

InitGroups ==
    \/ Started("ctx", FALSE, DefaultList, GroupCatalog, {"c1"})
    \/ Started("grp", FALSE, DefaultList, GroupCatalog, {"c1"})

NextGroups ==
    \/ \E c \in Clients, q \in SeqsUpTo(DOMAIN scenarioMocks, MaxSel) : modifyScenarios(c, ArrayBody(q))
    \/ \E q \in SeqsUpTo(DOMAIN scenarioMocks, MaxSel) : modifyScenarios_2(ArrayBody(q))
    \/ \E reqPath \in {PathA, PathB, PathC} : sharedRequest("GET", reqPath)
    \/ \E reqPath \in {PathA, PathB, PathC} : request_2("GET", reqPath)

SpecGroups == InitGroups /\ [][NextGroups]_vars

----------------------------------------------------------------------------
(* The cookie-mode server and the clients' cookie jars *)

\* a `default` whose mocks read the context, update it, and write a value with a
\* semicolon into it
DefaultJar == Entry(FALSE, "", TRUE, Ctx1("a", 1),
                    <<Mock("GET", UrlA, "Da", "partial"),
                      Mock("GET", UrlB, "Db", "read"),
                      Mock("GET", UrlC, "Dc", "semi")>>)

\* s1 brings a context and overrides GET /a with a mock that reads it
JarCatalog == ("s1" :> Entry(TRUE, "g", TRUE, Ctx1("b", 2), <<Mock("GET", UrlA, "S1a", "read")>>))

\* what a client can do with the cookies it holds: send a `context` cookie that is not
\* JSON, or none
clientSends(c, malformed) ==
    /\ impl = "ctx"
    /\ cookieMode
    /\ cookies' = [cookies EXCEPT ![c].hasContext = malformed,
                                  ![c].context = EmptyContext,
                                  ![c].malformed = malformed]
    /\ cookies' # cookies
    /\ UNCHANGED <<impl, cookieMode, defaultMocks, scenarioMocks, selectedScenarios, router, res, fresh,
                   inflight>>

InitCookie == Started("ctx", TRUE, DefaultJar, JarCatalog, {"c1", "c2"})

NextCookie ==
    \/ \E c \in Clients, q \in SeqsUpTo(DOMAIN scenarioMocks, MaxSel) : modifyScenarios(c, ArrayBody(q))
    \/ \E c \in Clients : resetScenarios(c)
    \/ \E c \in Clients, reqPath \in {PathA, PathB, PathC} : cookieRequest(c, "GET", reqPath)
    \/ \E c \in Clients, malformed \in BOOLEAN : clientSends(c, malformed)

SpecCookie == InitCookie /\ [][NextCookie]_vars

----------------------------------------------------------------------------
(* The matcher over a family of mock lists *)

\* mocks whose patterns overlap on /u/1 and whose methods differ
MatchPool == {Mock("GET", UrlUId, "Du", "static"),
              Mock("PATCH", UrlUKey, "Pk", "static"),
              Mock("GET", UrlU1, "Du1", "static"),
              Mock("GET", UrlA, "Da", "static")}

\* getHttpMockAndParams is called by the handler of the cookie router (index.ts:171)
InitMatch ==
    \E q \in SeqsUpTo(MatchPool, MaxDefaults) : Started("ctx", TRUE, Bare(q), CookieCatalog, {"c1"})

NextMatch ==
    \E c \in Clients, method \in ReqMethods, reqPath \in Paths : cookieRequest(c, method, reqPath)

SpecMatch == InitMatch /\ [][NextMatch]_vars

----------------------------------------------------------------------------
(* The server with requests in flight *)

InitAsync ==
    \/ Started("ctx", FALSE, DefaultAsync, AsyncCatalog, {"c1"})
    \/ Started("grp", FALSE, DefaultAsync_2, AsyncCatalog, {"c1"})

NextAsync ==
    \/ \E c \in Clients, q \in {<<>>, <<"s1">>} : modifyScenarios(c, ArrayBody(q))
    \/ \E q \in {<<>>, <<"s1">>} : modifyScenarios_2(ArrayBody(q))
    \/ \E id \in RequestIds, reqPath \in {PathA, PathB, PathC} : dispatchShared(id, "GET", reqPath)
    \/ \E id \in RequestIds : completeShared(id)
    \/ \E id \in RequestIds, reqPath \in {PathA, PathB, PathC} : dispatch_2(id, "GET", reqPath)
    \/ \E id \in RequestIds : complete_2(id)

SpecAsync == InitAsync /\ [][NextAsync]_vars

\* a timer that has expired and a promise that has settled get their turn of the event
\* loop
FairAsync ==
    \A id \in RequestIds : WF_vars(completeShared(id)) /\ WF_vars(complete_2(id))
SpecAsyncFair == SpecAsync /\ FairAsync

----------------------------------------------------------------------------
(* Claims *)

\* the routes a selection resolves to, for the program that runs
ResolvedRoutes(selection) ==
    IF impl = "grp"
    THEN createRouter_2(defaultMocks.mocks, scenarioMocks, selection).mocks
    ELSE createRouter(defaultMocks, scenarioMocks, selection).httpMocks
ResolvedGraphQl(selection) ==
    IF impl = "grp" THEN <<>>
    ELSE createRouter(defaultMocks, scenarioMocks, selection).graphQlMocks
Resolves(selection) ==
    IF impl = "grp"
    THEN ~createRouter_2(defaultMocks.mocks, scenarioMocks, selection).threw
    ELSE ~getMocksAndInitialContext(defaultMocks, scenarioMocks, selection).threw

\* the body of the activation request a step answers
AllConfigured(body) ==
    body.isArray /\ \A i \in 1..Len(body.names) : body.names[i] \in DOMAIN scenarioMocks

C1_RouterOfSelection ==
    ~cookieMode =>
        /\ Resolves(selectedScenarios)
        /\ router.httpMocks = ResolvedRoutes(selectedScenarios)
        /\ router.graphQlMocks = ResolvedGraphQl(selectedScenarios)
C1_FailureKeeps ==
    (~cookieMode /\ res'.route \in {"modify", "reset"} /\ res'.status # 204)
        => UNCHANGED <<selectedScenarios, router>>
\* C1: in shared mode the routes requests are dispatched to are always those resolved
\* from selectedScenarios, and a step that answers an activation request with anything
\* but 204 leaves selectedScenarios and the router (its routes and its context) as they were
C1_RouteTableFollowsSelection == [] C1_RouterOfSelection /\ [][C1_FailureKeeps]_vars
\* a failed activation that follows a successful one, with context updates in between
C1_Witness ==
    /\ ~cookieMode
    /\ res.route = "modify" /\ res.status = 500
    /\ selectedScenarios # <<>>
    /\ impl = "ctx" => router.context # createRouter(defaultMocks, scenarioMocks,
                                                     selectedScenarios).context

\* two entries of the body declare the same non-null group; i is the earlier one
SameGroupAt(names, i, j) ==
    /\ i < j
    /\ Grouped(scenarioMocks, names[i]) /\ Grouped(scenarioMocks, names[j])
    /\ scenarioMocks[names[i]].group = scenarioMocks[names[j]].group
SharesGroup(body) ==
    /\ AllConfigured(body)
    /\ \E i, j \in 1..Len(body.names) : SameGroupAt(body.names, i, j)
\* C2: an activation request whose names are all configured and two of which declare the
\* same non-null group is answered 500 with a message naming both scenarios and the
\* group, and leaves selectedScenarios, the router and the clients' cookies as they were
C2_GroupConflictFails ==
    [][(res'.route = "modify" /\ SharesGroup(res'.req.body)) =>
          /\ res'.status = 500
          /\ \E i, j \in 1..Len(res'.req.body.names) :
                /\ SameGroupAt(res'.req.body.names, i, j)
                /\ res'.message = GroupMessage(res'.req.body.names[j], res'.req.body.names[i],
                                               scenarioMocks[res'.req.body.names[i]].group)
          /\ UNCHANGED <<selectedScenarios, router, cookies>>]_vars
\* the conflict is reported while another selection is active
C2_Witness ==
    /\ res.route = "modify" /\ res.status = 500
    /\ res.req.body.names = <<"s1", "s2">>
    /\ res.message = GroupMessage("s2", "s1", "g")
    /\ selectedScenarios = <<"s3">>

Rejected(body) == ~AllConfigured(body)
\* C3: a PUT /modify-scenarios whose body is not an array or names a scenario that is
\* not configured is answered 400 and leaves selectedScenarios, the router and the
\* cookies as they were; no other body is answered 400 (a group conflict is a 500, a
\* successful activation a 204)
C3_InvalidBodyIs400 ==
    [][res'.route = "modify" =>
          /\ Rejected(res'.req.body) =>
                (res'.status = 400 /\ UNCHANGED <<selectedScenarios, router, cookies>>)
          /\ ~Rejected(res'.req.body) => res'.status \in {204, 500}
          /\ (/\ ~Rejected(res'.req.body) /\ ~SharesGroup(res'.req.body)
              /\ Resolves(res'.req.body.names)) => res'.status = 204]_vars
\* an unknown name is rejected while another selection is active
C3_Witness ==
    /\ res.route = "modify" /\ res.status = 400
    /\ res.req.body.names = <<"s1", "doesNotExist">>
    /\ res.message = UnknownMessage("doesNotExist")
    /\ selectedScenarios # <<>>

Range(q) == {q[i] : i \in 1..Len(q)}
IsHttp(m) == m.method # "GRAPHQL"
DefaultHttp == {m \in Range(defaultMocks.mocks) : IsHttp(m)}
SelectedHttp ==
    {m \in UNION {Range(scenarioMocks[selectedScenarios[i]].mocks) : i \in 1..Len(selectedScenarios)} :
        IsHttp(m)}
Collides(d) == \E s \in SelectedHttp : SameSignature(d, s)
\* the request's method is the mock's and its path matches the mock's url
Matches(m, req) == m.method = req.method /\ getMatchAndParams(req.path, m.url).match
\* the response the routes resolved from the empty selection give the request
ServedByDefaults(req) ==
    LET m == RouterMatch(req.method, req.path, ResolvedRoutes(<<>>))
    IN IF m.found THEN m.httpMock.response ELSE ""

\* C5 as stated: a request matching the signature that a selected scenario mock S shares
\* with a default D is served S's response, and a default colliding with no selected
\* scenario mock stays and is served unchanged
C5_AsStated ==
    (~cookieMode /\ res.route = "mock") =>
        /\ \A d \in DefaultHttp, s \in SelectedHttp :
              (SameSignature(d, s) /\ Matches(s, res.req)) => res.response = s.response
        /\ \A d \in DefaultHttp :
              ~Collides(d) =>
                  /\ d \in Range(router.httpMocks)
                  /\ ServedByDefaults(res.req) = d.response => res.response = d.response

\* C5: a default D that shares (method, url text) with a mock S of a selected scenario is
\* not among the resolved routes and no request is served D's response; a request that
\* matches S is served S's response when no other resolved route matches it (otherwise it
\* is served another matching route); a default that collides with no selected scenario
\* mock stays among the routes, and a request the defaults alone serve it is still served it
C5_OverrideSemantics ==
    (~cookieMode /\ res.route = "mock") =>
        /\ \A d \in DefaultHttp :
              Collides(d) => (d \notin Range(router.httpMocks) /\ res.response # d.response)
        /\ \A d \in DefaultHttp, s \in SelectedHttp :
              (/\ SameSignature(d, s)
               /\ Matches(s, res.req)
               /\ \A o \in Range(router.httpMocks) : Matches(o, res.req) => o = s)
                  => res.response = s.response
        /\ \A d \in DefaultHttp :
              ~Collides(d) =>
                  /\ d \in Range(router.httpMocks)
                  /\ ServedByDefaults(res.req) = d.response => res.response = d.response
\* GET /a with s1 selected over the defaults GET /a and GET /u/:id: s1's mock is served
C5_Witness ==
    /\ ~cookieMode
    /\ selectedScenarios = <<"s1">>
    /\ defaultMocks.mocks = <<Mock("GET", UrlA, "Da", "static"), Mock("GET", UrlUId, "Du", "static")>>
    /\ res.route = "mock" /\ res.req = MockRequest("GET", PathA)
    /\ res.response = "S1a"

\* the `default` entry followed by the entries of the selected scenarios
SelectedEntries(selection) ==
    <<defaultMocks>> \o [i \in 1..Len(selection) |-> scenarioMocks[selection[i]]]
InitialContextOf(selection) == getInitialContext(SelectedEntries(selection))

C6_ActivationResets ==
    (impl = "ctx" /\ ~cookieMode /\ res'.route \in {"modify", "reset"} /\ res'.status = 204)
        => router'.context = InitialContextOf(selectedScenarios')
C6_FirstRead ==
    (impl = "ctx" /\ ~cookieMode) =>
        /\ SharedKey \in fresh => router.context = InitialContextOf(selectedScenarios)
        /\ (res.route = "mock" /\ res.first) => res.context = InitialContextOf(selectedScenarios)
\* C6: in shared mode a step that answers an activation request (modify or reset) with
\* 204 leaves the store holding the initial context of the new selection, and the first
\* mock run after it is handed that context
C6_SharedContextReinitialized == [][C6_ActivationResets]_vars /\ [] C6_FirstRead
\* the first mock run after s1 is selected reads the merged initial context and updates it
C6_Witness ==
    /\ impl = "ctx" /\ ~cookieMode
    /\ selectedScenarios = <<"s1">>
    /\ res.route = "mock" /\ res.first /\ res.req = MockRequest("GET", PathA)
    /\ res.context = ("a" :> 1) @@ ("count" :> 0) @@ ("b" :> 2)
    /\ res.newContext # res.context

\* the selection a client's `scenarios` cookie holds
CookieSelection(c) == IF cookies[c].hasScenarios THEN JSONparse(cookies[c].scenarios) ELSE <<>>

\* C7: in cookie mode the first mock run of a client after its activation is handed the
\* initial context of the scenarios it selected, also when the client holds a `context`
\* cookie written under its previous selection
C7_CookieContextReinitialized ==
    (cookieMode /\ res.route = "mock" /\ res.status = 200 /\ res.first)
        => res.context = InitialContextOf(CookieSelection(res.client))

\* the entries of a selection that carry a context, and among them the last one that
\* holds key k
Contributes(entries, i) == ~entries[i].isArray /\ entries[i].hasContext
Holders(entries, k) == {i \in 1..Len(entries) : Contributes(entries, i) /\ k \in DOMAIN entries[i].context}
LastHolder(entries, k) == CHOOSE i \in Holders(entries, k) : \A j \in Holders(entries, k) : j <= i
ShallowMerge(entries) ==
    [k \in UNION {DOMAIN entries[i].context : i \in {j \in 1..Len(entries) : Contributes(entries, j)}} |->
        entries[LastHolder(entries, k)].context[k]]

\* C8: the context a shared-mode router starts with is, key by key, the value of the last
\* of <default, selected scenarios in selection order> that has a `context` holding the
\* key; mock lists and entries without `context` contribute no key
C8_InitialContextMerge ==
    (impl = "ctx" /\ ~cookieMode /\ (res.route = "boot" \/ SharedKey \in fresh))
        => router.context = ShallowMerge(SelectedEntries(selectedScenarios))
\* default {a: 1, count: 0}, then s2 {a: 3, b: 5}, then s1 {b: 2}
C8_Witness ==
    /\ defaultMocks = DefaultCtx
    /\ selectedScenarios = <<"s2", "s1">>
    /\ SharedKey \in fresh
    /\ router.context = ("a" :> 3) @@ ("b" :> 2) @@ ("count" :> 0)

\* the mock whose response function answered the last request
LastMock ==
    LET routes == IF cookieMode
                  THEN getMocksAndInitialContext(defaultMocks, scenarioMocks,
                                                 CookieSelection(res.client)).httpMocks
                  ELSE router.httpMocks
    IN getHttpMockAndParams(res.req.method, res.req.path, routes).httpMock
\* a mock run whose response function called updateContext with a function
UpdaterRan ==
    /\ impl = "ctx" /\ res.route = "mock" /\ res.status = 200
    /\ IsFunctionArg(LastMock.fn)

\* C9 as stated: update(updaterFn) leaves the store holding exactly the value updaterFn
\* returns for the prior context, so a prior key the returned value omits is gone
C9_AsStated ==
    UpdaterRan => res.newContext = ApplyArg(LastMock.fn, res.context)

\* C9: update(updaterFn) leaves the store holding the prior context overlaid with the
\* value updaterFn returns for it: a returned key has the returned value, and a prior
\* key the returned value omits keeps its prior value
C9_UpdaterResultMerged ==
    UpdaterRan =>
        LET returned == ApplyArg(LastMock.fn, res.context)
        IN /\ DOMAIN res.newContext = DOMAIN res.context \cup DOMAIN returned
           /\ \A k \in DOMAIN returned : res.newContext[k] = returned[k]
           /\ \A k \in DOMAIN res.context \ DOMAIN returned : res.newContext[k] = res.context[k]
\* s1's GET /a returns { only: 1 } for a context that holds a, b and count
C9_Witness ==
    /\ UpdaterRan
    /\ res.response = "S1a"
    /\ DOMAIN res.context = {"a", "b", "count"}
    /\ DOMAIN res.newContext = {"a", "b", "count", "only"}

\* a step in which a shared-mode mock answers a request
SharedMockStep == impl = "ctx" /\ ~cookieMode /\ res'.route = "mock" /\ res'.status = 200
C10_RequestReadsStore ==
    SharedMockStep => (res'.context = router.context /\ res'.newContext = router'.context)
C10_IncrementAdds ==
    (SharedMockStep /\ LastMock'.fn = "inc" /\ HasCount(router.context) /\ router.context["count"] >= 0)
        => router'.context = [router.context EXCEPT !["count"] = @ + 1]
C10_CountsFromZero ==
    (impl = "ctx" /\ ~cookieMode /\ defaultMocks = DefaultCtx /\ selectedScenarios = <<>>
        /\ res.route = "mock" /\ res.first /\ LastMock.fn = "inc")
        => (res.context["count"] = 0 /\ router.context["count"] = 1)
\* C10: in shared mode every mock run is handed the context the previous one left in the
\* store, and one that applies ctx => ({...ctx, count: ctx.count + 1}) leaves that context
\* with count one higher and nothing else changed; so from {count: 0} the first leaves 1
\* and n of them in a row, with no activation in between, leave count at n
C10_SequentialIncrements ==
    [][C10_RequestReadsStore /\ C10_IncrementAdds]_vars /\ [] C10_CountsFromZero
\* a request that reads count = MaxCount, left by MaxCount increments since boot or reset
C10_Witness ==
    /\ impl = "ctx" /\ ~cookieMode /\ defaultMocks = DefaultCtx /\ selectedScenarios = <<>>
    /\ res.route = "mock" /\ res.req = MockRequest("GET", PathB) /\ ~res.first
    /\ res.context["count"] = MaxCount
    /\ res.context["a"] = 1

\* a step in which the handler of request id, dispatched by the router in use, answers
Answers(id) == inflight[id].phase = "running" /\ inflight'[id].phase = "idle"
CompletesIncrement(id, kinds) ==
    /\ impl = "ctx" /\ ~cookieMode
    /\ Answers(id) /\ inflight[id].age = 0 /\ inflight[id].mock.fn \in kinds
\* the updater-function half of C11, which the store keeps
C11_UpdaterNotLost ==
    [][\A id \in RequestIds :
          CompletesIncrement(id, {"inc"}) => router'.context["count"] = router.context["count"] + 1]_vars

\* C11: in shared mode every completed request that increments `count`, by an updater
\* function or by a partial object computed from the context it was handed, adds one to
\* the store's count, whatever other requests were in flight meanwhile
C11_NoLostUpdate ==
    [][\A id \in RequestIds :
          CompletesIncrement(id, {"inc", "incPartial"})
              => router'.context["count"] = router.context["count"] + 1]_vars

\* the routes the handler of the cookie router resolves for the client it answered
CookieRoutes == getMocksAndInitialContext(defaultMocks, scenarioMocks, CookieSelection(res.client)).httpMocks
\* the places in the resolved list of the mocks that qualify for the request answered
Qualifying == {i \in 1..Len(CookieRoutes) : Matches(CookieRoutes[i], res.req)}

\* C12: the request is answered by the first mock of the resolved list whose method is
\* the request's and whose pattern matches the whole path, with the parameters its
\* pattern extracts from the path, and with 404 when no mock qualifies
C12_FirstQualifyingMock ==
    (cookieMode /\ res.route = "mock") =>
        IF Qualifying = {} THEN res.status = 404
        ELSE \E i \in Qualifying :
                /\ \A j \in Qualifying : i <= j
                /\ res.status = 200
                /\ res.response = CookieRoutes[i].response
                /\ res.params = getMatchAndParams(res.req.path, CookieRoutes[i].url).params
\* PATCH /u/%31 over <<GET /u/:id, PATCH /u/:key>>: the first mock matches the path only
C12_Witness ==
    /\ cookieMode
    /\ defaultMocks.mocks = <<Mock("GET", UrlUId, "Du", "static"), Mock("PATCH", UrlUKey, "Pk", "static")>>
    /\ res.route = "mock" /\ res.req = MockRequest("PATCH", PathUEnc)
    /\ res.response = "Pk"
    /\ res.params = ("key" :> "1")

\* a step in which request id is dispatched and its handler entered
Enters(id) == inflight[id].phase = "idle" /\ inflight'[id].phase = "running"
C13_DispatchUsesRouterInUse ==
    /\ \A id \in RequestIds :
          Enters(id) =>
              LET m == RouterMatch(inflight'[id].req.method, inflight'[id].req.path, router.httpMocks)
              IN m.found /\ inflight'[id].mock = m.httpMock
    /\ (res' # res /\ res'.route = "mock" /\ res'.status = 404 /\ \A id \in RequestIds : ~Answers(id))
          => ~RouterMatch(res'.req.method, res'.req.path, router.httpMocks).found
C13_SwapKeepsHandlers ==
    (res' # res /\ res'.route \in {"modify", "reset"}) =>
        \A id \in RequestIds :
            /\ inflight'[id].phase = inflight[id].phase
            /\ inflight'[id].req = inflight[id].req
            /\ inflight'[id].mock = inflight[id].mock
C13_AnswerIsOfDispatch ==
    \A id \in RequestIds :
        Answers(id) =>
            /\ res'.req = inflight[id].req
            /\ res'.status \in {200, 500}
            /\ res'.status = 200 => res'.response = inflight[id].mock.response
\* C13: a request is matched, when it is dispatched, against the router in use at that
\* moment; an activation leaves the handlers in flight with the mock they matched; and a
\* handler answers its own request with the response of the mock it matched, also when
\* the router has been replaced meanwhile
C13_SwapAffectsLaterRequestsOnly ==
    [][C13_DispatchUsesRouterInUse /\ C13_SwapKeepsHandlers /\ C13_AnswerIsOfDispatch]_vars
\* GET /a answered with the default's response after s1, which overrides it, was selected
C13_Witness ==
    /\ selectedScenarios = <<"s1">>
    /\ res.route = "mock" /\ res.req = MockRequest("GET", PathA) /\ res.status = 200
    /\ res.response = "Da"
    /\ RouterMatch("GET", PathA, router.httpMocks).httpMock.response = "S1a"

\* C14: every request whose handler was entered is eventually answered, also when its
\* response function throws or the promise it returns rejects
C14_MatchedRequestAnswered ==
    \A id \in RequestIds : (inflight[id].phase = "running") ~> (inflight[id].phase = "idle")

\* a step in which the cookie router answers a request of client c
CookieAnswer(c) == cookieMode /\ res' # res /\ res'.route = "mock" /\ res'.client = c
\* the context the handler of the cookie router should work with for client c
WellFormed(c) == cookies[c].hasContext /\ ~cookies[c].malformed
EffectiveContext(c) ==
    IF WellFormed(c) THEN JSONparse(cookies[c].context) ELSE InitialContextOf(CookieSelection(c))

\* C15: in cookie mode a request is never failed by the `context` cookie it carries, and
\* the response function is handed the cookie's value when the cookie is present and
\* well-formed, and the initial context of the client's selection otherwise
C15_EffectiveContext ==
    [][\A c \in Clients :
          CookieAnswer(c) =>
              /\ res'.status # 500
              /\ res'.status = 200 => res'.context = EffectiveContext(c)]_vars

\* C16: in cookie mode a request whose response function updates the context leaves the
\* client with a `context` cookie that, echoed back, is read as the context the update
\* produced
C16_UpdateReachesNextRequest ==
    [][\A c \in Clients :
          (CookieAnswer(c) /\ res'.status = 200 /\ Updates(LastMock'.fn)) =>
              /\ cookies'[c].hasContext /\ ~cookies'[c].malformed
              /\ JSONparse(cookies'[c].context) = res'.newContext]_vars

\* what the shared-mode router of a selection does with a request: the first HTTP route
\* that matches, else the GraphQL route of the path, else express's 404
SharedDispatch(selection, req) ==
    LET shared == createRouter(defaultMocks, scenarioMocks, selection)
        m == RouterMatch(req.method, req.path, shared.httpMocks)
        g == GraphQlMatch(req.method, req.path, shared.graphQlMocks)
    IN IF m.found THEN [route |-> "mock", status |-> 200, response |-> m.httpMock.response]
       ELSE IF g # {}
       THEN [route |-> "graphql", status |-> 200,
             response |-> shared.graphQlMocks[CHOOSE i \in g : \A j \in g : i <= j].response]
       ELSE [route |-> "mock", status |-> 404, response |-> ""]

\* C17: the cookie router hands a request to the mock the shared-mode router of the
\* client's selection would hand it to, a GraphQL mock included
C17_ModesDispatchAlike ==
    (cookieMode /\ res.route \in {"mock", "graphql"} /\ res.status \in {200, 404}) =>
        LET shared == SharedDispatch(CookieSelection(res.client), res.req)
        IN /\ res.route = shared.route
           /\ res.status = shared.status
           /\ res.response = shared.response

\* a handler whose response is on its way: its delay runs, or its response function
\* has not resumed yet
Waiting(id) == inflight[id].phase = "running" /\ ~Fails(inflight[id].mock.fn)
Dispatch(id, reqPath) == dispatchShared(id, "GET", reqPath) \/ dispatch_2(id, "GET", reqPath)
Complete(id) == completeShared(id) \/ complete_2(id)
Activate(names) == modifyScenarios("c1", ArrayBody(names)) \/ modifyScenarios_2(ArrayBody(names))

\* while a handler waits, the server takes a new request, lets another handler answer
\* and completes an activation
OthersProceed ==
    /\ (\E id \in RequestIds : Waiting(id)) => ENABLED Activate(<<"s1">>)
    /\ \A id \in RequestIds :
          Waiting(id) =>
              \A other \in RequestIds \ {id} :
                  /\ inflight[other].phase = "idle" => ENABLED Dispatch(other, PathC)
                  /\ inflight[other].phase = "running" => ENABLED Complete(other)

\* a waiting handler is ended by its own answer only, with the request and the mock it
\* was entered with
WaitsForItsAnswer ==
    \A id \in RequestIds :
        (Waiting(id) /\ ~Answers(id)) =>
            /\ Waiting(id)'
            /\ inflight'[id].req = inflight[id].req
            /\ inflight'[id].mock = inflight[id].mock

\* C18: a delayed response holds up its own request only: other requests are
\* dispatched and answered and activations complete while it waits, and the delayed
\* request is answered
C18_DelaySuspendsOwnRequestOnly ==
    /\ []OthersProceed
    /\ [][WaitsForItsAnswer]_vars
    /\ \A id \in RequestIds : Waiting(id) ~> (inflight[id].phase = "idle")
\* r1 still waits, and since it was dispatched another request has updated the shared
\* context and been answered
C18_Witness ==
    /\ impl = "ctx"
    /\ Waiting("r1") /\ inflight["r1"].age = 0
    /\ inflight["r1"].handed # router.context
    /\ res.route = "mock" /\ res.status = 200 /\ res.req # inflight["r1"].req
\* the second program: r1 waits out its delay while an activation has replaced the router
C18_Witness_2 ==
    /\ impl = "grp"
    /\ Waiting("r1")
    /\ selectedScenarios = <<"s1">>
    /\ inflight["r1"].mock.response = "Da"

DistinctNames(body) ==
    \A i, j \in 1..Len(body.names) : body.names[i] = body.names[j] => i = j
\* C19: an activation of distinct configured scenarios in which no non-null group is
\* declared twice succeeds, however many mock lists and scenarios without a group it
\* selects
C19_OnlyDeclaredGroupsExclude ==
    (/\ res.route = "modify"
     /\ AllConfigured(res.req.body)
     /\ DistinctNames(res.req.body)
     /\ ~SharesGroup(res.req.body)) => res.status = 204

\* what the cookie router answers a request of client c with, from the cookies c
\* sends and the configuration the server was started with
AnswerFor(c, req) ==
    LET r == getMocksAndInitialContext(defaultMocks, scenarioMocks, CookieSelection(c))
        m == RouterMatch(req.method, req.path, r.httpMocks)
    IN IF cookies[c].hasContext /\ cookies[c].malformed
       THEN [status |-> 500, response |-> "", context |-> EmptyContext]
       ELSE IF ~m.found THEN [status |-> 404, response |-> "", context |-> EmptyContext]
       ELSE [status |-> 200, response |-> m.httpMock.response,
             context |-> IF cookies[c].hasContext THEN JSONparse(cookies[c].context)
                         ELSE r.initialContext]
\* a step taken on behalf of client c: a request of c is answered, or c changes what it
\* holds
StepOf(c) == (res' # res /\ res'.client = c) \/ cookies'[c] # cookies[c]

\* C20: in cookie mode the answer to a client's request is a function of the cookies
\* that client sends and of the startup configuration, no step of one client changes
\* what another client holds, and no step changes the process-wide selection or router
C20_ClientsAreIsolated ==
    [][cookieMode =>
          /\ selectedScenarios' = selectedScenarios
          /\ router' = router
          /\ \A c \in Clients :
                /\ CookieAnswer(c) =>
                      /\ res'.status = AnswerFor(c, res'.req).status
                      /\ res'.response = AnswerFor(c, res'.req).response
                      /\ res'.context = AnswerFor(c, res'.req).context
                /\ StepOf(c) => \A d \in Clients \ {c} : cookies'[d] = cookies[d]]_vars
\* c1 has selected s1 and holds an updated context; c2's GET /a is served by the default
\* mock with the initial context, and nothing is selected process-wide
C20_Witness ==
    /\ cookieMode
    /\ cookies["c1"].hasScenarios /\ cookies["c1"].scenarios = <<"s1">>
    /\ cookies["c1"].hasContext
    /\ ~cookies["c2"].hasScenarios
    /\ res.route = "mock" /\ res.client = "c2" /\ res.status = 200
    /\ res.req.path = PathA /\ res.response = "Da"
    /\ res.context = Ctx1("a", 1)
    /\ selectedScenarios = <<>>

\* a handler of the shared-mode router that was entered before the last swap
EnteredBeforeSwap(id) ==
    /\ impl = "ctx" /\ ~cookieMode
    /\ inflight[id].phase = "running"
    /\ (inflight[id].age > 0 \/ SharedKey \in fresh)

\* C21: the answer of a handler entered before a swap, whatever it does to its own
\* context, leaves the context of the router in use as it was; until a request is
\* dispatched after the swap that context is the initial context of the selection
C21_OldHandlersLeaveNewContext ==
    /\ [][\A id \in RequestIds :
             (EnteredBeforeSwap(id) /\ Answers(id)) => router'.context = router.context]_vars
    /\ []((impl = "ctx" /\ ~cookieMode /\ SharedKey \in fresh) =>
             router.context = InitialContextOf(selectedScenarios))
\* a request entered before s1 was activated has counted in the context it was handed,
\* and the context of the router in use still counts zero
C21_Witness ==
    /\ impl = "ctx" /\ ~cookieMode
    /\ selectedScenarios = <<"s1">>
    /\ SharedKey \in fresh
    /\ res.route = "mock" /\ res.status = 200
    /\ res.context = Ctx1("count", 0) /\ res.newContext = Ctx1("count", 1)
    /\ router.context = Ctx1("count", 0)

\* the mocks of the selected scenarios, in selection order (index.ts:278-286 and
\* index.ts:555-570 both concatenate them)
SelectedMocks == mergeMocks([i \in 1..Len(selectedScenarios) |-> scenarioMocks[selectedScenarios[i]]])
\* the places in SelectedMocks of the mocks that match the request answered
SelectedMatching == {i \in 1..Len(SelectedMocks) : Matches(SelectedMocks[i], res.req)}
\* two different selected scenarios define a mock of one signature that matches the
\* request answered, and no route of another signature does: i is the place of the
\* first selected, j of a later one
Contested(i, j) ==
    /\ i \in SelectedMatching /\ j \in SelectedMatching
    /\ i < j /\ \A k \in SelectedMatching : i <= k
    /\ SameSignature(SelectedMocks[i], SelectedMocks[j])
    /\ SelectedMocks[i] # SelectedMocks[j]
    /\ \A k \in SelectedMatching : SameSignature(SelectedMocks[i], SelectedMocks[k])
    /\ \A d \in DefaultHttp : Matches(d, res.req) => SameSignature(d, SelectedMocks[i])
\* a list holds mock a at a place before mock b
InOrder(list, a, b) == \E x, y \in 1..Len(list) : x < y /\ list[x] = a /\ list[y] = b
SharedAnswer == ~cookieMode /\ res.route = "mock" /\ res.status = 200

C22_Witness_ctx ==
    /\ impl = "ctx"
    /\ selectedScenarios = <<"s1", "s3">>
    /\ SharedAnswer /\ res.req.path = PathA
    /\ res.response = "S3a"
====
